---- MODULE Spec2Model ----
(***************************************************************************)
(* Claude-CMS: the record store (contacts, organizations, tasks, notes and *)
(* their five association tables), the service layer that creates and     *)
(* tags records inside one get_db_session() per call, and the dispatcher   *)
(* of NoteService to the HTTP client when SERVICE_URL is set.              *)
(* Also: the two registries that the metaclasses of models/__init__.py     *)
(* fill while the models are imported, get_db_session line by line, and    *)
(* the completion flag of a task.                                          *)
(*                                                                         *)
(* Strings that the code parses or formats are sequences of one-character  *)
(* strings.  Python lists of IDs are modelled as sets of IDs: the code     *)
(* only uses them through IN (...), set(...) and `in`.  A list of display  *)
(* names in a diff is a bag of names (the order of a query without         *)
(* ORDER BY is abstracted, the multiplicity of equal names is kept).       *)
(***************************************************************************)
EXTENDS Integers, Sequences, FiniteSets, Bags, TLC

VARIABLES
    environ,                          \* os.environ: the value of SERVICE_URL, or None
    SERVICE_URL,                      \* services/base_service.py: module constant
    contacts,                         \* table contacts: id -> row
    organizations,                    \* table organizations: id -> row
    tasks,                            \* table tasks: id -> row
    notes,                            \* table notes: id -> row
    note_contact_association,         \* set of <<note_id, contact_id>>
    note_organization_association,    \* set of <<note_id, organization_id>>
    note_task_association,            \* set of <<note_id, task_id>>
    task_contact_association,         \* set of <<task_id, contact_id>>
    task_organization_association,    \* set of <<task_id, organization_id>>
    last,                             \* the recorded call: arguments, store before it, value returned
    _sqlalchemy_models,               \* models/__init__.py: names of the registered SQLAlchemy models
    _pydantic_models,                 \* models/__init__.py: names of the registered Pydantic models
    classes,                          \* the class statements executed so far, with their outcome
    sessions,                         \* per session that SessionLocal() made: the calls on it
    frame,                            \* the frame of get_db_session that runs or ran last, or None
    threads,                          \* per concurrent caller: where its call is, what it read, its result
    now                               \* datetime.utcnow(), in ticks

tables == <<contacts, organizations, tasks, notes,
            note_contact_association, note_organization_association,
            note_task_association, task_contact_association,
            task_organization_association>>

registry == <<_sqlalchemy_models, _pydantic_models, classes>>

scope == <<sessions, frame>>

callers == <<threads, now>>

vars == <<environ, SERVICE_URL, contacts, organizations, tasks, notes,
          note_contact_association, note_organization_association,
          note_task_association, task_contact_association,
          task_organization_association, last,
          _sqlalchemy_models, _pydantic_models, classes, sessions, frame,
          threads, now>>

----------------------------------------------------------------------------
(* Bounds of the model.                                                    *)

MaxContacts == 2

MaxOrganizations == 1

MaxTasks == 1

MaxNotes == 1

\* IDs that a caller may pass are 1..MaxId; an ID above the number of rows
\* of a table names no row.
MaxId == 2

\* a tagging call carries at most MaxArgIds IDs over all its lists
MaxArgIds == 3

\* a creation call carries at most MaxCreateIds IDs over all its lists
MaxCreateIds == 1

\* a bulk call carries at most MaxBulk names
MaxBulk == 2

\* a tagging call under both backends carries at most MaxBackendIds IDs
MaxBackendIds == 1

\* a run of the import executes at most MaxClasses class statements
MaxClasses == 3

\* a run of the session steps makes at most MaxSessions sessions
MaxSessions == 2

\* at most MaxCallers calls run concurrently
MaxCallers == 2

\* the notes besides the first MaxNotes where other notes are looked at
MaxOtherNotes == 1

\* the clock runs from 0 to MaxClock
MaxClock == 2

----------------------------------------------------------------------------
(* Values.                                                                 *)

\* Python's None, as a value or as an error
None == [kind |-> "None"]

Ids == 1..MaxId

\* the store as one value (the committed state of the database file)
Store ==
    [contacts |-> contacts, organizations |-> organizations, tasks |-> tasks,
     notes |-> notes,
     note_contact_association |-> note_contact_association,
     note_organization_association |-> note_organization_association,
     note_task_association |-> note_task_association,
     task_contact_association |-> task_contact_association,
     task_organization_association |-> task_organization_association]

EmptyStore ==
    [contacts |-> <<>>, organizations |-> <<>>, tasks |-> <<>>, notes |-> <<>>,
     note_contact_association |-> {}, note_organization_association |-> {},
     note_task_association |-> {}, task_contact_association |-> {},
     task_organization_association |-> {}]

\* an Optional[int] argument: None or an integer
OptionalInt(n) == [kind |-> "int", value |-> n]

\* `if contact_id:` is false of None and of 0
Truthy(x) == IF x = None THEN FALSE ELSE x.value # 0

\* INTEGER PRIMARY KEY of SQLite: one more than the largest rowid; no row is
\* ever deleted, so the rows of a table are 1..n
NextId(table) == Cardinality(DOMAIN table) + 1

\* the IDs b such that <<a, b>> is in the association table
Linked(assoc, a) == {p[2] : p \in {q \in assoc : q[1] = a}}

\* the association table with the links of a replaced by a -> bs
Relink(assoc, a, bs) == {q \in assoc : q[1] # a} \cup {<<a, b>> : b \in bs}

----------------------------------------------------------------------------
(* Strings.                                                                *)

IsSpace(ch) == ch = " "

RECURSIVE lstrip(_)
lstrip(s) ==
    IF s = <<>> THEN <<>>
    ELSE IF IsSpace(Head(s)) THEN lstrip(Tail(s)) ELSE s

RECURSIVE rstrip(_)
rstrip(s) ==
    IF s = <<>> THEN <<>>
    ELSE IF IsSpace(s[Len(s)]) THEN rstrip(SubSeq(s, 1, Len(s) - 1)) ELSE s

\* str.strip()
strip(s) == rstrip(lstrip(s))

\* the length of the longest prefix of s without whitespace
RECURSIVE WordLen(_)
WordLen(s) ==
    IF s = <<>> THEN 0
    ELSE IF IsSpace(Head(s)) THEN 0 ELSE 1 + WordLen(Tail(s))

\* str.split(maxsplit=1): the first word and, if anything but whitespace
\* follows it, the rest of the string from its first non-blank character
split_maxsplit_1(s) ==
    LET t == lstrip(s)
        n == WordLen(t)
        rest == lstrip(SubSeq(t, n + 1, Len(t)))
    IN  IF t = <<>> THEN <<>>
        ELSE IF rest = <<>> THEN <<SubSeq(t, 1, n)>>
        ELSE <<SubSeq(t, 1, n), rest>>

\* f"{c.first_name} {c.last_name}"
ContactName(c) == c.first_name \o <<" ">> \o c.last_name

OrganizationName(o) == o.name

TaskTitle(t) == t.title

\* the display names of the rows ids, one per row; nameOf maps a row ID to
\* the row's display name
RECURSIVE Names(_, _)
Names(nameOf, ids) ==
    IF ids = {} THEN EmptyBag
    ELSE LET i == CHOOSE i \in ids : TRUE
         IN  SetToBag({nameOf[i]}) (+) Names(nameOf, ids \ {i})

ContactNames(table, ids) ==
    Names([i \in DOMAIN table |-> ContactName(table[i])], ids)

OrganizationNames(table, ids) ==
    Names([i \in DOMAIN table |-> OrganizationName(table[i])], ids)

TaskTitles(table, ids) ==
    Names([i \in DOMAIN table |-> TaskTitle(table[i])], ids)

----------------------------------------------------------------------------
(* lib/database.py: one session per call.                                  *)

\* what the body of a `with get_db_session()` block leaves behind: the
\* session's view of the store with its pending changes, whether the body
\* raised, and the pair (value, error) it returned; session: what was done
\* with a session of the store, requests: the network requests sent
Return(db, value, error) ==
    [store |-> db, raised |-> FALSE, value |-> value, error |-> error,
     session |-> <<>>, requests |-> 0, response |-> None]

Raise(db, exception) ==
    [store |-> db, raised |-> TRUE, value |-> None,
     error |-> [kind |-> exception], session |-> <<>>, requests |-> 0,
     response |-> None]

\* get_db_session: commit when the body ends without an exception (a
\* `return` inside the block included), rollback and re-raise otherwise;
\* the session is closed in both cases
get_db_session(before, body) ==
    IF body.raised
    THEN [body EXCEPT !.store = before,
                      !.session = <<"SessionLocal", "rollback", "close">>]
    ELSE [body EXCEPT !.session = <<"SessionLocal", "commit", "close">>]

\* the concurrent callers
Callers == 1..MaxCallers

\* no caller has begun a call, and the clock is at 0
NoCaller ==
    /\ threads = [p \in Callers |-> [at |-> "idle"]]
    /\ now = 0

\* no session has been made
NoSession ==
    /\ sessions = <<>>
    /\ frame = None

\* the committed store becomes s
Write(s) ==
    /\ contacts' = s.contacts
    /\ organizations' = s.organizations
    /\ tasks' = s.tasks
    /\ notes' = s.notes
    /\ note_contact_association' = s.note_contact_association
    /\ note_organization_association' = s.note_organization_association
    /\ note_task_association' = s.note_task_association
    /\ task_contact_association' = s.task_contact_association
    /\ task_organization_association' = s.task_organization_association

\* what is recorded of a call; repeat: the call repeats the recorded one
\* (the same operation with the same arguments)
Recorded(op, backend, args, outcome) ==
    [op |-> op, backend |-> backend, args |-> args, pre |-> Store,
     repeat |-> last.op = op /\ last.backend = backend /\ last.args = args,
     raised |-> outcome.raised, value |-> outcome.value,
     error |-> outcome.error, session |-> outcome.session,
     requests |-> outcome.requests, response |-> outcome.response,
     time |-> now]

\* no call of the run has been recorded yet
Fresh == last.op = "init"

\* a call of a service operation on the local store: the outcome of its
\* session is written.  One call of a run is recorded in `last`; the calls
\* before it change the store only.
LocalCall(op, args, outcome) ==
    /\ last' \in {Recorded(op, "local", args, outcome)}
                     \cup (IF Fresh THEN {last} ELSE {})
    /\ Write(outcome.store)
    /\ UNCHANGED <<environ, SERVICE_URL, registry, scope, callers>>

----------------------------------------------------------------------------
(* services/contact_service.py, services/organization_service.py           *)

\* a plausible slip: the lookup compares the first name with the last name
ContactsNamed_swapped(table, first_name, last_name) ==
    {i \in DOMAIN table : /\ table[i].first_name = last_name
                          /\ table[i].last_name = first_name}

\* select(ContactDB).where(first_name == ..., last_name == ...): the IDs of
\* the matching rows
ContactsNamed(table, first_name, last_name) ==
    {i \in DOMAIN table : /\ table[i].first_name = first_name
                          /\ table[i].last_name = last_name}

OrganizationsNamed(table, name) == {i \in DOMAIN table : table[i].name = name}

Duplicate(entity, id) == [kind |-> "Duplicate", entity |-> entity, id |-> id]

\* the row that a session adds to a table
Insert(table, row) == table @@ (NextId(table) :> row)

\* ContactService.add_contact, the body of its session
add_contact_body(db, first_name, last_name) ==
    LET existing == ContactsNamed(db.contacts, first_name, last_name)
        contact == [first_name |-> first_name, last_name |-> last_name]
    IN  IF existing # {}
        THEN Return(db, None, Duplicate("Contact", CHOOSE i \in existing : TRUE))
        ELSE Return([db EXCEPT !.contacts = Insert(@, contact)],
                    [kind |-> "Contact", id |-> NextId(db.contacts)], None)

add_contact(first_name, last_name) ==
    LET outcome == get_db_session(Store, add_contact_body(Store, first_name, last_name))
    IN  /\ Cardinality(DOMAIN outcome.store.contacts) <= MaxContacts
        /\ LocalCall("add_contact",
                     [first_name |-> first_name, last_name |-> last_name], outcome)

\* ContactService.bulk_add_contacts, the loop over names[k..]: acc holds the
\* session's view, the added and the skipped entries so far; parts[0] of a
\* blank name raises IndexError
RECURSIVE bulk_add_loop(_, _, _)
bulk_add_loop(acc, names, k) ==
    IF k > Len(names)
    THEN Return(acc.db, [kind |-> "Bulk", added |-> acc.added, skipped |-> acc.skipped], None)
    ELSE LET parts == split_maxsplit_1(strip(names[k]))
         IN  IF Len(parts) = 0 THEN Raise(acc.db, "IndexError")
             ELSE LET first_name == parts[1]
                      last_name == IF Len(parts) > 1 THEN parts[2] ELSE <<>>
                      existing == ContactsNamed(acc.db.contacts, first_name, last_name)
                      contact == [first_name |-> first_name, last_name |-> last_name]
                  IN  IF existing # {}
                      THEN bulk_add_loop(
                             [acc EXCEPT !.skipped = Append(@,
                                 [name |-> ContactName(contact),
                                  id |-> CHOOSE i \in existing : TRUE])],
                             names, k + 1)
                      ELSE bulk_add_loop(
                             [db |-> [acc.db EXCEPT !.contacts = Insert(@, contact)],
                              added |-> Append(acc.added,
                                 [name |-> ContactName(contact),
                                  id |-> NextId(acc.db.contacts)]),
                              skipped |-> acc.skipped],
                             names, k + 1)

bulk_add_contacts_body(db, names) ==
    bulk_add_loop([db |-> db, added |-> <<>>, skipped |-> <<>>], names, 1)

bulk_add_contacts(names) ==
    LET body == bulk_add_contacts_body(Store, names)
    IN  /\ Cardinality(DOMAIN body.store.contacts) <= MaxContacts
        /\ LocalCall("bulk_add_contacts", [names |-> names],
                     get_db_session(Store, body))

\* a Python list of rows, as the set of their IDs
List(ids) == [kind |-> "list", items |-> ids]

\* ContactService.list_contacts, the body of its session
list_contacts_body(db) == Return(db, List(DOMAIN db.contacts), None)

list_contacts ==
    LocalCall("list_contacts", <<>>,
              get_db_session(Store, list_contacts_body(Store)))

\* contact.notes: the notes that are linked to the contact
NotesOf(assoc, contact_id) == {p[1] : p \in {q \in assoc : q[2] = contact_id}}

\* ContactService.get_contact_with_notes, the body of its session: None
\* when the contact is not found, else the contact and its recent notes
get_contact_with_notes_body(db, contact_id) ==
    IF contact_id \notin DOMAIN db.contacts
    THEN Return(db, None, None)
    ELSE Return(db,
                [kind |-> "ContactWithNotes", id |-> contact_id,
                 notes |-> List(NotesOf(db.note_contact_association, contact_id))],
                None)

get_contact_with_notes(contact_id) ==
    LocalCall("get_contact_with_notes", [id |-> contact_id],
              get_db_session(Store, get_contact_with_notes_body(Store, contact_id)))

\* OrganizationService.add_organization, the body of its session
add_organization_body(db, name) ==
    LET existing == OrganizationsNamed(db.organizations, name)
    IN  IF existing # {}
        THEN Return(db, None, Duplicate("Organization", CHOOSE i \in existing : TRUE))
        ELSE Return([db EXCEPT !.organizations = Insert(@, [name |-> name])],
                    [kind |-> "Organization", id |-> NextId(db.organizations)], None)

add_organization(name) ==
    LET outcome == get_db_session(Store, add_organization_body(Store, name))
    IN  /\ Cardinality(DOMAIN outcome.store.organizations) <= MaxOrganizations
        /\ LocalCall("add_organization", [name |-> name], outcome)

----------------------------------------------------------------------------
(* services/task_service.py                                                *)

\* a plausible slip: the upper limit is off by one
ImportanceInRange_off_by_one(importance) == ~(importance < 0 \/ importance > 11)

\* `if importance < 0 or importance > 10` does not hold
ImportanceInRange(importance) == ~(importance < 0 \/ importance > 10)

\* select(X).where(X.id.in_(ids)): the IDs of the rows found
Found(table, ids) == ids \cap DOMAIN table

\* TaskService.add_task, the body of its session: IDs that name no row are
\* dropped by the IN query
add_task_body(db, title, importance, contact_ids, organization_ids) ==
    LET id == NextId(db.tasks)
        task == [title |-> title, importance |-> importance, completed |-> 0]
        contact_objs == Found(db.contacts, contact_ids)
        org_objs == Found(db.organizations, organization_ids)
    IN  Return([db EXCEPT
                  !.tasks = Insert(@, task),
                  !.task_contact_association = Relink(@, id, contact_objs),
                  !.task_organization_association = Relink(@, id, org_objs)],
               [kind |-> "Task", id |-> id, contacts |-> contact_objs,
                organizations |-> org_objs], None)

add_task(title, importance, contact_ids, organization_ids) ==
    LET args == [title |-> title, importance |-> importance,
                 contact_ids |-> contact_ids,
                 organization_ids |-> organization_ids]
        outcome ==
            IF ~ImportanceInRange(importance)
            THEN Return(Store, None, [kind |-> "Validation"])
            ELSE get_db_session(Store,
                     add_task_body(Store, title, importance, contact_ids,
                                   organization_ids))
    IN  /\ Cardinality(DOMAIN outcome.store.tasks) <= MaxTasks
        /\ LocalCall("add_task", args, outcome)

\* TaskService.get_task, the body of its session: the task, or None
get_task_body(db, task_id) ==
    IF task_id \notin DOMAIN db.tasks
    THEN Return(db, None, None)
    ELSE Return(db,
                [kind |-> "Task", id |-> task_id,
                 contacts |-> Linked(db.task_contact_association, task_id),
                 organizations |-> Linked(db.task_organization_association, task_id)],
                None)

\* TaskService.list_tasks, the body of its session, with a limit above the
\* number of tasks: the joins keep the tasks linked to the filter IDs
list_tasks_body(db, show_completed, contact_id, organization_id) ==
    LET shown == {i \in DOMAIN db.tasks :
                     show_completed \/ db.tasks[i].completed = 0}
        of_contact == IF Truthy(contact_id)
                      THEN {i \in shown :
                               <<i, contact_id.value>> \in db.task_contact_association}
                      ELSE shown
        of_organization ==
            IF Truthy(organization_id)
            THEN {i \in of_contact :
                     <<i, organization_id.value>> \in db.task_organization_association}
            ELSE of_contact
    IN  Return(db, List(of_organization), None)

list_tasks(show_completed, contact_id, organization_id) ==
    LocalCall("list_tasks",
              [show_completed |-> show_completed, contact_id |-> contact_id,
               organization_id |-> organization_id],
              get_db_session(Store,
                  list_tasks_body(Store, show_completed, contact_id,
                                  organization_id)))

get_task(task_id) ==
    LocalCall("get_task", [id |-> task_id],
              get_db_session(Store, get_task_body(Store, task_id)))

NotFound(entity, id) == [kind |-> "NotFound", entity |-> entity, id |-> id]

\* "Task '<title>' is already completed" / "... already incomplete"
Already(state, title) == [kind |-> "Already", state |-> state, title |-> title]

\* a plausible slip: the test `if task.completed` is lost
complete_task_body_untested(db, task_id) ==
    IF task_id \notin DOMAIN db.tasks
    THEN Return(db, None, NotFound("Task", task_id))
    ELSE Return([db EXCEPT !.tasks[task_id].completed = 1],
                [kind |-> "Task", id |-> task_id, completed |-> 1], None)

\* TaskService.complete_task, the body of its session; `if task.completed`
\* is true of every value but 0
complete_task_body(db, task_id) ==
    IF task_id \notin DOMAIN db.tasks
    THEN Return(db, None, NotFound("Task", task_id))
    ELSE IF db.tasks[task_id].completed # 0
         THEN Return(db, None, Already("completed", db.tasks[task_id].title))
         ELSE Return([db EXCEPT !.tasks[task_id].completed = 1],
                     [kind |-> "Task", id |-> task_id, completed |-> 1], None)

complete_task(task_id) ==
    LocalCall("complete_task", [id |-> task_id],
              get_db_session(Store, complete_task_body(Store, task_id)))

\* TaskService.uncomplete_task, the body of its session
uncomplete_task_body(db, task_id) ==
    IF task_id \notin DOMAIN db.tasks
    THEN Return(db, None, NotFound("Task", task_id))
    ELSE IF db.tasks[task_id].completed = 0
         THEN Return(db, None, Already("incomplete", db.tasks[task_id].title))
         ELSE Return([db EXCEPT !.tasks[task_id].completed = 0],
                     [kind |-> "Task", id |-> task_id, completed |-> 0], None)

uncomplete_task(task_id) ==
    LocalCall("uncomplete_task", [id |-> task_id],
              get_db_session(Store, uncomplete_task_body(Store, task_id)))

\* a plausible slip: the test `contact not in task.contacts` is lost, and
\* every row found is reported as added
tag_task_kind_unchecked(current, add_ids, remove_ids, table) ==
    LET to_add == Found(table, add_ids)
        after_add == current \cup to_add
    IN  [added |-> to_add,
         removed |-> Found(table, remove_ids),
         after |-> {c \in after_add : c \notin remove_ids}]

\* TaskService.tag_task, one kind: rows found by the IN query and not yet in
\* the collection are appended; the collection is then filtered by the
\* remove-list, and the rows that the remove-list finds in the table are
\* reported as removed
tag_task_kind(current, add_ids, remove_ids, table) ==
    LET to_add == Found(table, add_ids) \ current
        after_add == current \cup to_add
    IN  [added |-> to_add,
         removed |-> Found(table, remove_ids),
         after |-> {c \in after_add : c \notin remove_ids}]

\* a plausible slip: the test `if not task` is lost, and the lists are
\* applied to the ID whether or not a task has it
tag_task_body_untested(db, task_id, a) ==
    LET c == tag_task_kind(Linked(db.task_contact_association, task_id),
                           a.add_contact_ids, a.remove_contact_ids,
                           db.contacts)
        o == tag_task_kind(Linked(db.task_organization_association, task_id),
                           a.add_org_ids, a.remove_org_ids,
                           db.organizations)
    IN  Return([db EXCEPT
                  !.task_contact_association = Relink(@, task_id, c.after),
                  !.task_organization_association = Relink(@, task_id, o.after)],
               [kind |-> "changes",
                added_contacts |-> ContactNames(db.contacts, c.added),
                removed_contacts |-> ContactNames(db.contacts, c.removed),
                added_organizations |-> OrganizationNames(db.organizations, o.added),
                removed_organizations |-> OrganizationNames(db.organizations, o.removed)],
               None)

\* TaskService.tag_task, the body of its session
tag_task_body(db, task_id, a) ==
    IF task_id \notin DOMAIN db.tasks
    THEN Return(db, None, NotFound("Task", task_id))
    ELSE LET c == tag_task_kind(Linked(db.task_contact_association, task_id),
                                a.add_contact_ids, a.remove_contact_ids,
                                db.contacts)
             o == tag_task_kind(Linked(db.task_organization_association, task_id),
                                a.add_org_ids, a.remove_org_ids,
                                db.organizations)
         IN  Return([db EXCEPT
                       !.task_contact_association = Relink(@, task_id, c.after),
                       !.task_organization_association = Relink(@, task_id, o.after)],
                    [kind |-> "changes",
                     added_contacts |-> ContactNames(db.contacts, c.added),
                     removed_contacts |-> ContactNames(db.contacts, c.removed),
                     added_organizations |-> OrganizationNames(db.organizations, o.added),
                     removed_organizations |-> OrganizationNames(db.organizations, o.removed)],
                    None)

tag_task(task_id, a) ==
    LocalCall("tag_task", [id |-> task_id, tags |-> a],
              get_db_session(Store, tag_task_body(Store, task_id, a)))

----------------------------------------------------------------------------
(* services/base_service.py, services/http_client.py                       *)

\* os.getenv("SERVICE_URL") when base_service is loaded: unset, set but
\* empty, or the address of the peer
ServiceUrls == {None, [kind |-> "str", value |-> ""],
                [kind |-> "str", value |-> "http://peer"]}

\* a plausible slip: the environment is read again at every call
is_remote_mode_getenv == environ # None

\* `SERVICE_URL is not None`
is_remote_mode == SERVICE_URL # None

\* the text of a body that is not JSON, and the detail of an error: empty
\* or not
Texts == {"", "x"}

\* the JSON object of an HTTPException
Detail(text) == [kind |-> "detail", detail |-> text]

\* what one httpx request can end in: httpx.RequestError (timeout,
\* connection error), or a response with a status code and a body: text
\* that is not JSON, JSON null, the JSON data of the endpoint under 200,
\* the JSON object of an error under 404 and 500
Outcomes(datas) ==
    {[kind |-> "RequestError"]}
    \cup [kind : {"Response"}, status_code : {200},
          body : [kind : {"text"}, text : Texts]
                 \cup [kind : {"json"}, data : datas \cup {None}]]
    \cup [kind : {"Response"}, status_code : {404, 500},
          body : [kind : {"text"}, text : Texts]
                 \cup [kind : {"json"},
                       data : {None} \cup {Detail(t) : t \in Texts}]]

\* the endpoints that answer with one object (an entity or a diff)
HTTPOutcomes == Outcomes({[kind |-> "object", id |-> 1]})

\* the endpoints that answer with a list: no item, or one item
HTTPListOutcomes == Outcomes([kind : {"list"}, items : {{}, {1}}])

\* what a request gave back to the client: (data, error), or an exception
Response(response, raised, value, error, requests) ==
    [raised |-> raised, value |-> value, error |-> error, session |-> <<>>,
     requests |-> requests, response |-> response]

\* response.text: the body as it was sent; the text of a JSON body is
\* not empty
response_text(response) ==
    IF response.body.kind = "text" THEN response.body.text ELSE "json"

\* response.json().get("detail", response.text) worked: the body is a JSON
\* object (an error object has the key)
HasDetail(response) ==
    IF response.body.kind = "json"
    THEN response.body.data.kind = "detail" ELSE FALSE

\* HTTPClient._handle_response: (None, error_detail) from 400 on, with the
\* detail of the JSON object, or the text of the body when .json() or
\* .get() raised; else (response.json(), None), or (None, "Invalid JSON
\* response") when .json() raised
_handle_response(response) ==
    IF response.status_code >= 400
    THEN Response(response, FALSE, None,
                  [kind |-> IF HasDetail(response) THEN "detail" ELSE "text",
                   status_code |-> response.status_code,
                   text |-> IF HasDetail(response)
                            THEN response.body.data.detail
                            ELSE response_text(response)], 1)
    ELSE IF response.body.kind = "json"
         THEN Response(response, FALSE, response.body.data, None, 1)
         ELSE Response(response, FALSE, None,
                       [kind |-> "Invalid JSON response",
                        text |-> "Invalid JSON response"], 1)

\* HTTPClient.get / post / patch: _get_base_url raises when the URL is
\* empty, before a request is sent; a RequestError becomes an error value
http_request(outcome) ==
    IF SERVICE_URL = None \/ SERVICE_URL.value = ""
    THEN Response(None, TRUE, None, [kind |-> "RuntimeError"], 0)
    ELSE IF outcome.kind = "RequestError"
         THEN Response(outcome, FALSE, None,
                       [kind |-> "Request failed", text |-> "Request failed: "], 1)
         ELSE _handle_response(outcome)

\* `if error:` on the error that HTTPClient returned: None and the empty
\* string are false
bool(error) == IF error = None THEN FALSE ELSE error.text # ""

\* a call of a service operation that is forwarded to the peer: the local
\* store is not touched
RemoteCall(op, args, result) ==
    /\ last' = Recorded(op, "remote", args, result)
    /\ UNCHANGED <<environ, SERVICE_URL, tables, registry, scope, callers>>

\* RemoteObject(data): the fields of the JSON object as attributes
RemoteObject(data) == [kind |-> "RemoteObject", id |-> data.id]

\* data.get(key, default) of a JSON object
Get(data, key, default) == IF key \in DOMAIN data THEN data[key] ELSE default

\* the note that NoteHTTP builds of the JSON object of a response: the
\* object itself, and one RemoteObject for each item of the three lists
RemoteNote(data) ==
    [kind |-> "RemoteObject", id |-> data.id,
     contacts |-> {RemoteObject(c) : c \in Get(data, "contacts", {})},
     organizations |-> {RemoteObject(o) : o \in Get(data, "organizations", {})},
     tasks |-> {RemoteObject(t) : t \in Get(data, "tasks", {})}]

\* what a client builds of the data of a response: a note, another entity,
\* or the list of the entities
Built(shape, data) ==
    CASE shape = "note" -> RemoteNote(data)
      [] shape = "object" -> RemoteObject(data)
      [] shape = "list" -> List({RemoteObject([id |-> i]) : i \in data.items})

\* what a client does with (data, error) of HTTPClient: the error branch
\* when `if error:` holds; else the data is used, and the use of None
\* (RemoteObject(None), `for item in None`) raises
Client(r, onError, shape) ==
    IF r.raised THEN r
    ELSE IF bool(r.error) THEN onError
    ELSE IF r.value = None
    THEN [r EXCEPT !.raised = TRUE, !.error = [kind |-> "TypeError"]]
    ELSE [r EXCEPT !.value = Built(shape, r.value), !.error = None]

\* ContactHTTP.list_contacts: an error of the request gives the empty list
ContactHTTP_list_contacts(http) ==
    LET r == http_request(http)
    IN  Client(r, [r EXCEPT !.value = List({}), !.error = None], "list")

\* ContactHTTP.get_contact_with_notes: no request is sent, None is returned
ContactHTTP_get_contact_with_notes(contact_id) ==
    Response(None, FALSE, None, None, 0)

\* TaskHTTP.get_task, NoteHTTP.get_note: an error of the request gives None
HTTP_get(http) ==
    LET r == http_request(http)
    IN  Client(r, [r EXCEPT !.value = None, !.error = None], "object")

TaskHTTP_get_task(http) == HTTP_get(http)

\* NoteHTTP.get_note: an error of the request gives None
NoteHTTP_get_note(http) ==
    LET r == http_request(http)
    IN  Client(r, [r EXCEPT !.value = None, !.error = None], "note")

\* NoteHTTP.add_note: (None, error) or (note, None)
NoteHTTP_add_note(http) ==
    LET r == http_request(http)
    IN  Client(r, r, "note")

\* NoteHTTP.tag_note: what HTTPClient.patch returns
NoteHTTP_tag_note(http) == http_request(http)

----------------------------------------------------------------------------
(* services/note_service.py                                                *)

ReferenceNotFound(entity, ids) ==
    [kind |-> "ReferenceNotFound", entity |-> entity, ids |-> ids]

\* a plausible slip: every ID of the request is reported
MissingIds_all(ids, found_ids) == ids

\* set(ids) - found_ids
MissingIds(ids, found_ids) == ids \ found_ids

\* a plausible slip: the rows already linked are not filtered out
NewOnes_unfiltered(to_add, existing_ids) == to_add

\* [c for c in to_add if c.id not in existing_ids]
NewOnes(to_add, existing_ids) == {c \in to_add : c \notin existing_ids}

\* a plausible slip: the filter on the remove-list is lost
ToRemove_unfiltered(collection, remove_ids) ==
    IF remove_ids = {} THEN {} ELSE collection

\* [c for c in collection if c.id in remove_ids]
ToRemove(collection, remove_ids) == {c \in collection : c \in remove_ids}

\* collection.extend(new)
Extend(collection, new) == collection \cup new

\* a plausible slip: the remove-list works on the collection as it was
\* before the add-list
tag_note_kind_remove_first(current, add_ids, remove_ids, table) ==
    LET to_add == Found(table, add_ids)
        missing_ids == MissingIds(add_ids, to_add)
        to_remove == ToRemove(current, remove_ids)
        new == NewOnes(to_add, current)
    IN  [missing_ids |-> missing_ids, added |-> new, removed |-> to_remove,
         after |-> Extend(current \ to_remove, new)]

\* NoteService.tag_note, one kind: the add-list is resolved and checked
\* for missing IDs before the collection is extended; the remove-list then
\* works on the extended collection
tag_note_kind(current, add_ids, remove_ids, table) ==
    LET to_add == Found(table, add_ids)
        missing_ids == MissingIds(add_ids, to_add)
        new == NewOnes(to_add, current)
        after_add == Extend(current, new)
        to_remove == ToRemove(after_add, remove_ids)
    IN  [missing_ids |-> missing_ids, added |-> new, removed |-> to_remove,
         after |-> after_add \ to_remove]

\* NoteService.tag_note, the body of its session: a missing ID of a kind
\* returns the error from inside the `with` block, after the collections of
\* the kinds before it were changed
tag_note_body(db, note_id, a) ==
    IF note_id \notin DOMAIN db.notes
    THEN Return(db, None, NotFound("Note", note_id))
    ELSE
    LET c == tag_note_kind(Linked(db.note_contact_association, note_id),
                           a.add_contact_ids, a.remove_contact_ids, db.contacts)
        o == tag_note_kind(Linked(db.note_organization_association, note_id),
                           a.add_org_ids, a.remove_org_ids, db.organizations)
        t == tag_note_kind(Linked(db.note_task_association, note_id),
                           a.add_task_ids, a.remove_task_ids, db.tasks)
        db1 == [db EXCEPT !.note_contact_association = Relink(@, note_id, c.after)]
        db2 == [db1 EXCEPT !.note_organization_association = Relink(@, note_id, o.after)]
        db3 == [db2 EXCEPT !.note_task_association = Relink(@, note_id, t.after)]
    IN  IF c.missing_ids # {}
        THEN Return(db, None, ReferenceNotFound("Contact", c.missing_ids))
        ELSE IF o.missing_ids # {}
        THEN Return(db1, None, ReferenceNotFound("Organization", o.missing_ids))
        ELSE IF t.missing_ids # {}
        THEN Return(db2, None, ReferenceNotFound("Task", t.missing_ids))
        ELSE Return(db3,
                    [kind |-> "changes",
                     added_contacts |-> ContactNames(db.contacts, c.added),
                     removed_contacts |-> ContactNames(db.contacts, c.removed),
                     added_organizations |-> OrganizationNames(db.organizations, o.added),
                     removed_organizations |-> OrganizationNames(db.organizations, o.removed),
                     added_tasks |-> TaskTitles(db.tasks, t.added),
                     removed_tasks |-> TaskTitles(db.tasks, t.removed)],
                    None)

\* NoteService.tag_note
tag_note(note_id, a) ==
    IF is_remote_mode
    THEN \E http \in HTTPOutcomes :
             RemoteCall("tag_note", [id |-> note_id, tags |-> a],
                        NoteHTTP_tag_note(http))
    ELSE LocalCall("tag_note", [id |-> note_id, tags |-> a],
                   get_db_session(Store, tag_note_body(Store, note_id, a)))

\* NoteService.add_note, the body of its session: the note is added to the
\* session only after every list was resolved, so an error return leaves
\* nothing to commit
add_note_body(db, title, contact_ids, organization_ids, task_ids) ==
    LET id == NextId(db.notes)
        contact_objs == Found(db.contacts, contact_ids)
        organization_objs == Found(db.organizations, organization_ids)
        task_objs == Found(db.tasks, task_ids)
    IN  IF MissingIds(contact_ids, contact_objs) # {}
        THEN Return(db, None,
                    ReferenceNotFound("Contact", MissingIds(contact_ids, contact_objs)))
        ELSE IF MissingIds(organization_ids, organization_objs) # {}
        THEN Return(db, None,
                    ReferenceNotFound("Organization",
                                      MissingIds(organization_ids, organization_objs)))
        ELSE IF MissingIds(task_ids, task_objs) # {}
        THEN Return(db, None,
                    ReferenceNotFound("Task", MissingIds(task_ids, task_objs)))
        ELSE Return([db EXCEPT
                       !.notes = Insert(@, [title |-> title, updated_at |-> now]),
                       !.note_contact_association = Relink(@, id, contact_objs),
                       !.note_organization_association = Relink(@, id, organization_objs),
                       !.note_task_association = Relink(@, id, task_objs)],
                    [kind |-> "Note", id |-> id, contacts |-> contact_objs,
                     organizations |-> organization_objs, tasks |-> task_objs],
                    None)

\* NoteService.add_note
add_note(title, contact_ids, organization_ids, task_ids) ==
    LET args == [title |-> title, contact_ids |-> contact_ids,
                 organization_ids |-> organization_ids, task_ids |-> task_ids]
        outcome == get_db_session(Store,
                       add_note_body(Store, title, contact_ids,
                                     organization_ids, task_ids))
    IN  IF is_remote_mode
        THEN \E http \in HTTPOutcomes :
                 RemoteCall("add_note", args, NoteHTTP_add_note(http))
        ELSE /\ Cardinality(DOMAIN outcome.store.notes) <= MaxNotes
             /\ LocalCall("add_note", args, outcome)

\* NoteHTTP.list_notes: (None, error) or (notes, None)
NoteHTTP_list_notes(http) ==
    LET r == http_request(http)
    IN  Client(r, r, "list")

\* NoteService.list_notes, the body of its session, with a limit above the
\* number of notes: a filter ID that names no row returns an error
list_notes_body(db, contact_id, organization_id) ==
    IF Truthy(contact_id)
    THEN IF contact_id.value \notin DOMAIN db.contacts
         THEN Return(db, None, NotFound("Contact", contact_id.value))
         ELSE Return(db, List({p[1] : p \in {q \in db.note_contact_association :
                                                  q[2] = contact_id.value}}), None)
    ELSE IF Truthy(organization_id)
    THEN IF organization_id.value \notin DOMAIN db.organizations
         THEN Return(db, None, NotFound("Organization", organization_id.value))
         ELSE Return(db, List({p[1] : p \in {q \in db.note_organization_association :
                                                  q[2] = organization_id.value}}), None)
    ELSE Return(db, List(DOMAIN db.notes), None)

\* NoteService.list_notes
list_notes(contact_id, organization_id) ==
    LET args == [contact_id |-> contact_id, organization_id |-> organization_id]
    IN  IF is_remote_mode
        THEN \E http \in HTTPListOutcomes :
                 RemoteCall("list_notes", args, NoteHTTP_list_notes(http))
        ELSE LocalCall("list_notes", args,
                       get_db_session(Store,
                           list_notes_body(Store, contact_id, organization_id)))

\* NoteService.get_note, the body of its session: the note, or None
get_note_body(db, note_id) ==
    IF note_id \notin DOMAIN db.notes
    THEN Return(db, None, None)
    ELSE Return(db,
                [kind |-> "Note", id |-> note_id,
                 contacts |-> Linked(db.note_contact_association, note_id),
                 organizations |-> Linked(db.note_organization_association, note_id),
                 tasks |-> Linked(db.note_task_association, note_id)],
                None)

\* NoteService.get_note
get_note(note_id) ==
    IF is_remote_mode
    THEN \E http \in HTTPOutcomes :
             RemoteCall("get_note", [id |-> note_id], NoteHTTP_get_note(http))
    ELSE LocalCall("get_note", [id |-> note_id],
                   get_db_session(Store, get_note_body(Store, note_id)))

----------------------------------------------------------------------------
(* Inputs.                                                                 *)

Card(S) == Cardinality(S)

\* the tag lists of a NoteService.tag_note call
NoteTagArgs ==
    {a \in [add_contact_ids : SUBSET Ids, remove_contact_ids : SUBSET Ids,
            add_org_ids : SUBSET Ids, remove_org_ids : SUBSET Ids,
            add_task_ids : SUBSET Ids, remove_task_ids : SUBSET Ids] :
        Card(a.add_contact_ids) + Card(a.remove_contact_ids)
        + Card(a.add_org_ids) + Card(a.remove_org_ids)
        + Card(a.add_task_ids) + Card(a.remove_task_ids) <= MaxArgIds}

\* the tag lists of a TaskService.tag_task call
TaskTagArgs ==
    {a \in [add_contact_ids : SUBSET Ids, remove_contact_ids : SUBSET Ids,
            add_org_ids : SUBSET Ids, remove_org_ids : SUBSET Ids] :
        Card(a.add_contact_ids) + Card(a.remove_contact_ids)
        + Card(a.add_org_ids) + Card(a.remove_org_ids) <= MaxArgIds}

\* the ID lists of a NoteService.add_note call
NoteCreateArgs ==
    {a \in [contact_ids : SUBSET Ids, organization_ids : SUBSET Ids,
            task_ids : SUBSET Ids] :
        Card(a.contact_ids) + Card(a.organization_ids) + Card(a.task_ids) <= MaxCreateIds}

\* the ID lists of a TaskService.add_task call
TaskCreateArgs ==
    {a \in [contact_ids : SUBSET Ids, organization_ids : SUBSET Ids] :
        Card(a.contact_ids) + Card(a.organization_ids) <= MaxCreateIds}

FirstNames == {<<"a">>, <<"b">>}

LastNames == {<<>>, <<"b">>}

\* names as typed by a user: one word, two words with blanks around them,
\* and a blank name
BulkNames == {<<"a">>, <<" ", "a", " ", " ", "b", " ">>, <<"b", " ", "b">>, <<" ">>}

BulkLists == UNION {[1..n -> BulkNames] : n \in 1..MaxBulk}

OrganizationNamesIn == {<<"x">>, <<"y">>}

Importances == {-1, 0, 10, 11}

----------------------------------------------------------------------------
(* models/__init__.py: the metaclasses and the two registries.            *)

\* a class statement: the name of the class, the metaclass it gets from its
\* bases, and whether its namespace sets __abstract__ = True
ClassStatement(name, metaclass, abstract) ==
    [name |-> name, metaclass |-> metaclass, abstract |-> abstract]

\* the registries as one value
Registries == [sqlalchemy |-> _sqlalchemy_models, pydantic |-> _pydantic_models]

AssertionError(name) == [kind |-> "AssertionError", name |-> name]

\* ValidatedPydanticMeta.__new__: the registries after it and what it raised
ValidatedPydanticMeta(reg, name, abstract) ==
    IF name = "BaseModel" \/ abstract
    THEN [reg |-> reg, raised |-> None]
    ELSE [reg |-> [reg EXCEPT !.pydantic = @ \cup {name}],
          raised |-> IF name \notin reg.sqlalchemy
                     THEN AssertionError(name) ELSE None]

\* ValidatedSQLAlchemyMeta.__new__
ValidatedSQLAlchemyMeta(reg, name, abstract) ==
    IF name = "Base" \/ abstract
    THEN [reg |-> reg, raised |-> None]
    ELSE [reg |-> [reg EXCEPT !.sqlalchemy = @ \cup {name}], raised |-> None]

\* type(BaseModel), the metaclass of a class that derives from pydantic's
\* BaseModel directly: the registries are not consulted
ModelMetaclass(reg, name, abstract) == [reg |-> reg, raised |-> None]

\* the metaclass call of one class statement
Define(reg, c) ==
    IF c.metaclass = "ValidatedSQLAlchemyMeta"
    THEN ValidatedSQLAlchemyMeta(reg, c.name, c.abstract)
    ELSE IF c.metaclass = "ValidatedPydanticMeta"
         THEN ValidatedPydanticMeta(reg, c.name, c.abstract)
         ELSE ModelMetaclass(reg, c.name, c.abstract)

\* the class statements of models/__init__.py, models/contact_note.py and
\* models/task.py, in the order of the files
Program ==
    <<ClassStatement("ValidatedBase", "ValidatedSQLAlchemyMeta", TRUE),
      ClassStatement("ValidatedPydanticModel", "ValidatedPydanticMeta", TRUE),
      ClassStatement("Contact", "ValidatedSQLAlchemyMeta", FALSE),
      ClassStatement("Organization", "ValidatedSQLAlchemyMeta", FALSE),
      ClassStatement("Note", "ValidatedSQLAlchemyMeta", FALSE),
      ClassStatement("Contact", "ValidatedPydanticMeta", FALSE),
      ClassStatement("Organization", "ValidatedPydanticMeta", FALSE),
      ClassStatement("Note", "ValidatedPydanticMeta", FALSE),
      ClassStatement("ContactWithNotes", "ModelMetaclass", FALSE),
      ClassStatement("NoteBasic", "ModelMetaclass", FALSE),
      ClassStatement("OrganizationWithNotes", "ModelMetaclass", FALSE),
      ClassStatement("NoteWithContacts", "ModelMetaclass", FALSE),
      ClassStatement("Task", "ValidatedSQLAlchemyMeta", FALSE),
      ClassStatement("Task", "ValidatedPydanticMeta", FALSE),
      ClassStatement("TaskBasic", "ModelMetaclass", FALSE)>>

\* the import of a module: its class statements one after the other, up to
\* the first that raises; acc holds the registries and the statements done
RECURSIVE Import(_, _, _)
Import(acc, statements, k) ==
    IF k > Len(statements) THEN acc
    ELSE LET done == Define(acc.reg, statements[k])
             entry == [name |-> statements[k].name,
                       metaclass |-> statements[k].metaclass,
                       abstract |-> statements[k].abstract,
                       raised |-> done.raised]
             next == [reg |-> done.reg, classes |-> Append(acc.classes, entry)]
         IN  IF done.raised # None THEN next
             ELSE Import(next, statements, k + 1)

\* no class statement has been executed
NoModels ==
    /\ _sqlalchemy_models = {}
    /\ _pydantic_models = {}
    /\ classes = <<>>

\* the models of the program have been imported
ModelsImported ==
    LET done == Import([reg |-> [sqlalchemy |-> {}, pydantic |-> {}],
                        classes |-> <<>>], Program, 1)
    IN  /\ _sqlalchemy_models = done.reg.sqlalchemy
        /\ _pydantic_models = done.reg.pydantic
        /\ classes = done.classes

----------------------------------------------------------------------------
(* The store under tagging calls.                                          *)

\* init_db on a new database file: the tables exist and have no row; no
\* call has been recorded
NewDatabase ==
    /\ contacts = <<>>
    /\ organizations = <<>>
    /\ tasks = <<>>
    /\ notes = <<>>
    /\ note_contact_association = {}
    /\ note_organization_association = {}
    /\ note_task_association = {}
    /\ task_contact_association = {}
    /\ task_organization_association = {}
    /\ last = [op |-> "init", backend |-> "local", args |-> <<>>,
               pre |-> EmptyStore, repeat |-> FALSE, raised |-> FALSE,
               value |-> None, error |-> None, session |-> <<>>,
               requests |-> 0, response |-> None, time |-> 0]

\* the store of a new database file, in a process that loaded base_service
\* with the configuration url
InitWith(url) ==
    /\ environ = url
    /\ SERVICE_URL = url
    /\ ModelsImported
    /\ NoSession
    /\ NoCaller
    /\ NewDatabase

\* no SERVICE_URL in the environment: the services work on the local store
Init == InitWith(None)

\* the tagging calls are explored over one contact and one organization
\* name: a second call with the name is the duplicate
AddContact == add_contact(<<"a">>, <<"b">>)

AddOrganization == add_organization(<<"x">>)

AddTask == add_task(<<"t">>, 5, {}, {})

AddNote ==
    \E a \in NoteCreateArgs :
        add_note(<<"n">>, a.contact_ids, a.organization_ids, a.task_ids)

TagNote ==
    \E id \in Ids, a \in NoteTagArgs : tag_note(id, a)

TagTask == \E id \in Ids, a \in TaskTagArgs : tag_task(id, a)

\* the recorded tagging call is made once more; the run is followed no
\* further
Again ==
    /\ ~Fresh
    /\ ~last.repeat
    /\ \/ /\ last.op = "tag_note"
          /\ tag_note(last.args.id, last.args.tags)
       \/ /\ last.op = "tag_task"
          /\ tag_task(last.args.id, last.args.tags)

Next ==
    \/ Fresh /\ AddContact
    \/ Fresh /\ AddOrganization
    \/ Fresh /\ AddTask
    \/ Fresh /\ AddNote
    \/ Fresh /\ TagNote
    \/ Fresh /\ TagTask
    \/ Again

Spec == Init /\ [][Next]_vars

----------------------------------------------------------------------------
(* The contacts and organizations under creation calls.                   *)

CreateContact == \E f \in FirstNames, l \in LastNames : add_contact(f, l)

CreateContacts == \E names \in BulkLists : bulk_add_contacts(names)

CreateOrganization == \E n \in OrganizationNamesIn : add_organization(n)

NextCreate ==
    \/ Fresh /\ CreateContact
    \/ Fresh /\ CreateContacts
    \/ Fresh /\ CreateOrganization

SpecCreate == Init /\ [][NextCreate]_vars

----------------------------------------------------------------------------
(* The tasks under creation calls.                                         *)

CreateTask ==
    \E i \in Importances, a \in TaskCreateArgs :
        add_task(<<"t">>, i, a.contact_ids, a.organization_ids)

NextTasks ==
    \/ Fresh /\ AddContact
    \/ Fresh /\ AddOrganization
    \/ Fresh /\ CreateTask

SpecTasks == Init /\ [][NextTasks]_vars

----------------------------------------------------------------------------
(* The tasks under completion calls: once a call is recorded, every call  *)
(* after it is recorded too, so `last` is the call that led to the state.  *)

CompleteTask == \E id \in Ids : complete_task(id)

UncompleteTask == \E id \in Ids : uncomplete_task(id)

NextComplete ==
    \/ CreateTask
    \/ CompleteTask
    \/ UncompleteTask

SpecComplete == Init /\ [][NextComplete]_vars

----------------------------------------------------------------------------
(* The process: base_service is loaded once, the calls follow under the    *)
(* backend that it selected.                                               *)

\* services.base_service has not been imported yet
Unloaded == [kind |-> "unloaded"]

Loaded == SERVICE_URL # Unloaded

InitBackend ==
    /\ environ \in ServiceUrls
    /\ SERVICE_URL = Unloaded
    /\ ModelsImported
    /\ NoSession
    /\ NoCaller
    /\ NewDatabase

\* main.py: load_dotenv, or anything else that sets or unsets the variable
\* in the environment of the process
putenv ==
    /\ \E url \in ServiceUrls \ {environ} : environ' = url
    /\ UNCHANGED <<SERVICE_URL, tables, last, registry, scope, callers>>

\* the import of services.base_service: SERVICE_URL = os.getenv("SERVICE_URL")
load ==
    /\ ~Loaded
    /\ SERVICE_URL' = environ
    /\ UNCHANGED <<environ, tables, last, registry, scope, callers>>

\* the tag lists under both backends: contact lists only
BackendTagArgs ==
    {a \in NoteTagArgs :
        /\ a.add_org_ids = {} /\ a.remove_org_ids = {}
        /\ a.add_task_ids = {} /\ a.remove_task_ids = {}
        /\ Card(a.add_contact_ids) + Card(a.remove_contact_ids) <= MaxBackendIds}

PlainNote == add_note(<<"n">>, {}, {}, {})

TagNoteContacts == \E id \in Ids, a \in BackendTagArgs : tag_note(id, a)

GetNote == \E id \in Ids : get_note(id)

GetTask == \E id \in Ids : get_task(id)

ListContacts == list_contacts

GetContactWithNotes == \E id \in Ids : get_contact_with_notes(id)

\* main.py, _init_remote: the HTTP clients are called when is_remote_mode()
ListContactsHTTP ==
    /\ is_remote_mode
    /\ \E http \in HTTPListOutcomes :
           RemoteCall("ContactHTTP.list_contacts", <<>>,
                      ContactHTTP_list_contacts(http))

GetTaskHTTP ==
    /\ is_remote_mode
    /\ \E id \in Ids, http \in HTTPOutcomes :
           RemoteCall("TaskHTTP.get_task", [id |-> id], TaskHTTP_get_task(http))

GetContactWithNotesHTTP ==
    /\ is_remote_mode
    /\ \E id \in Ids :
           RemoteCall("ContactHTTP.get_contact_with_notes", [id |-> id],
                      ContactHTTP_get_contact_with_notes(id))

\* a call of the loaded process that has recorded no call yet
Calling == Loaded /\ Fresh

NextBackend ==
    \/ Fresh /\ putenv
    \/ load
    \/ Calling /\ AddContact
    \/ Calling /\ AddOrganization
    \/ Calling /\ AddTask
    \/ Calling /\ PlainNote
    \/ Calling /\ TagNoteContacts
    \/ Calling /\ GetNote
    \/ Calling /\ GetTask
    \/ Calling /\ ListContacts
    \/ Calling /\ GetContactWithNotes
    \/ Calling /\ ListContactsHTTP
    \/ Calling /\ GetTaskHTTP
    \/ Calling /\ GetContactWithNotesHTTP

SpecBackend == InitBackend /\ [][NextBackend]_vars

----------------------------------------------------------------------------
(* lib/database.py: get_db_session line by line.                           *)

\* SessionLocal() where the one scoped session of the process is handed out
SessionLocal_scoped(made) == 1

\* SessionLocal(): a new session object, the next after those made
SessionLocal(made) == Len(made) + 1

\* the frame has returned or raised to its caller
Exited == IF frame = None THEN TRUE ELSE frame.at = "exit"

\* the call session.method() of the running frame
CallOn(method) == [sessions EXCEPT ![frame.session] = Append(@, method)]

\* line 39: session = SessionLocal()
enter ==
    /\ Exited
    /\ Len(sessions) < MaxSessions
    /\ LET session == SessionLocal(sessions)
       IN  /\ sessions' = IF session > Len(sessions)
                          THEN Append(sessions, <<"SessionLocal">>)
                          ELSE [sessions EXCEPT ![session] = Append(@, "SessionLocal")]
           /\ frame' = [session |-> session, at |-> "yield", pre |-> Store,
                        body |-> None, exception |-> None]
    /\ UNCHANGED <<environ, SERVICE_URL, tables, last, registry, callers>>

\* the bodies of the with blocks of ContactService.add_contact and
\* ContactService.bulk_add_contacts
Bodies ==
    {add_contact_body(Store, f, l) : f \in FirstNames, l \in LastNames}
    \cup {bulk_add_contacts_body(Store, names) : names \in BulkLists}

\* line 41: yield session; the with block runs up to its end, a return or
\* an exception
yield ==
    /\ ~Exited
    /\ frame.at = "yield"
    /\ \E body \in Bodies :
        /\ Cardinality(DOMAIN body.store.contacts) <= MaxContacts
        /\ frame' = [frame EXCEPT !.body = body,
                                  !.exception = IF body.raised THEN body.error ELSE None,
                                  !.at = IF body.raised THEN "except" ELSE "commit"]
    /\ UNCHANGED <<environ, SERVICE_URL, tables, last, registry, sessions, callers>>

\* line 41: the with block is ended by an exception that is not an
\* Exception (KeyboardInterrupt): `except Exception` does not catch it
interrupt ==
    /\ ~Exited
    /\ frame.at = "yield"
    /\ frame' = [frame EXCEPT !.body = Raise(Store, "KeyboardInterrupt"),
                              !.exception = [kind |-> "KeyboardInterrupt"],
                              !.at = "finally"]
    /\ UNCHANGED <<environ, SERVICE_URL, tables, last, registry, sessions, callers>>

\* line 42: session.commit() writes the pending changes
commit ==
    /\ ~Exited
    /\ frame.at = "commit"
    /\ sessions' = CallOn("commit")
    /\ Write(frame.body.store)
    /\ frame' = [frame EXCEPT !.at = "finally"]
    /\ UNCHANGED <<environ, SERVICE_URL, last, registry, callers>>

\* line 42: session.commit() raises (the database is locked, the disk is
\* full): nothing is written, the exception goes to line 43
commit_raises ==
    /\ ~Exited
    /\ frame.at = "commit"
    /\ sessions' = CallOn("commit")
    /\ frame' = [frame EXCEPT !.at = "except",
                              !.exception = [kind |-> "OperationalError"]]
    /\ UNCHANGED <<environ, SERVICE_URL, tables, last, registry, callers>>

\* lines 43-45: except Exception: session.rollback(); raise
rollback ==
    /\ ~Exited
    /\ frame.at = "except"
    /\ sessions' = CallOn("rollback")
    /\ frame' = [frame EXCEPT !.at = "finally"]
    /\ UNCHANGED <<environ, SERVICE_URL, tables, last, registry, callers>>

\* lines 46-47: finally: session.close(); the frame returns, or raises
\* the exception again
close ==
    /\ ~Exited
    /\ frame.at = "finally"
    /\ sessions' = CallOn("close")
    /\ frame' = [frame EXCEPT !.at = "exit"]
    /\ UNCHANGED <<environ, SERVICE_URL, tables, last, registry, callers>>

InitSession == InitWith(None)

NextSession ==
    \/ enter
    \/ yield
    \/ interrupt
    \/ commit
    \/ commit_raises
    \/ rollback
    \/ close

SpecSession == InitSession /\ [][NextSession]_vars

----------------------------------------------------------------------------
(* Concurrent callers: each call has its own session; it reads the store,  *)
(* and its INSERTs reach the store when it flushes and commits.            *)

AssociationTables ==
    {"note_contact_association", "note_organization_association",
     "note_task_association", "task_contact_association",
     "task_organization_association"}

\* the table `current` with the rows that a session added to `before`
AppendRows(current, before, after) ==
    LET n == Cardinality(DOMAIN current)
        m == Cardinality(DOMAIN before)
        k == Cardinality(DOMAIN after) - m
    IN  [i \in 1..(n + k) |-> IF i <= n THEN current[i] ELSE after[m + i - n]]

\* the flush and commit of a session that read the store `read` and whose
\* body left `body`: its new rows get the next rowids, its association rows
\* are inserted and deleted; an association row that another session has
\* inserted meanwhile violates the primary key of the table, and the
\* IntegrityError is raised through get_db_session
Flush(current, read, body) ==
    LET inserted(t) == body.store[t] \ read[t]
        deleted(t) == read[t] \ body.store[t]
        written ==
            [contacts |-> AppendRows(current.contacts, read.contacts, body.store.contacts),
             organizations |-> AppendRows(current.organizations, read.organizations,
                                          body.store.organizations),
             tasks |-> AppendRows(current.tasks, read.tasks, body.store.tasks),
             notes |-> AppendRows(current.notes, read.notes, body.store.notes),
             note_contact_association |->
                 (current.note_contact_association
                    \ deleted("note_contact_association"))
                 \cup inserted("note_contact_association"),
             note_organization_association |->
                 (current.note_organization_association
                    \ deleted("note_organization_association"))
                 \cup inserted("note_organization_association"),
             note_task_association |->
                 (current.note_task_association
                    \ deleted("note_task_association"))
                 \cup inserted("note_task_association"),
             task_contact_association |->
                 (current.task_contact_association
                    \ deleted("task_contact_association"))
                 \cup inserted("task_contact_association"),
             task_organization_association |->
                 (current.task_organization_association
                    \ deleted("task_organization_association"))
                 \cup inserted("task_organization_association")]
    IN  IF body.raised THEN get_db_session(current, [body EXCEPT !.store = current])
        ELSE IF \E t \in AssociationTables : inserted(t) \cap current[t] # {}
        THEN get_db_session(current, Raise(current, "IntegrityError"))
        ELSE get_db_session(current,
                 [body EXCEPT
                    !.store = written,
                    !.value = IF body.value.kind = "Contact"
                              THEN [body.value EXCEPT !.id = NextId(current.contacts)]
                              ELSE body.value])

\* the concurrent tagging calls add contacts
ConcurrentNoteTags ==
    {a \in NoteTagArgs :
        /\ a.remove_contact_ids = {}
        /\ a.add_org_ids = {} /\ a.remove_org_ids = {}
        /\ a.add_task_ids = {} /\ a.remove_task_ids = {}
        /\ Card(a.add_contact_ids) <= MaxBackendIds}

ConcurrentTaskTags ==
    {a \in TaskTagArgs :
        /\ a.remove_contact_ids = {}
        /\ a.add_org_ids = {} /\ a.remove_org_ids = {}
        /\ Card(a.add_contact_ids) <= MaxBackendIds}

Idle(p) == threads[p].at = "idle"

\* caller p enters the with block of an operation and runs its body on what
\* its session reads
begin(p, op, args, body) ==
    /\ threads' = [threads EXCEPT ![p] =
                      [at |-> "flush", op |-> op, args |-> args,
                       read |-> Store, body |-> body]]
    /\ UNCHANGED <<environ, SERVICE_URL, tables, last, registry, scope, now>>

BeginTagNote(p) ==
    \E id \in Ids, a \in ConcurrentNoteTags :
        begin(p, "tag_note", [id |-> id, tags |-> a], tag_note_body(Store, id, a))

BeginTagTask(p) ==
    \E id \in Ids, a \in ConcurrentTaskTags :
        begin(p, "tag_task", [id |-> id, tags |-> a], tag_task_body(Store, id, a))

BeginAddContact(p) ==
    \E f \in FirstNames :
        begin(p, "add_contact", [first_name |-> f, last_name |-> <<"b">>],
              add_contact_body(Store, f, <<"b">>))

\* the session of caller p flushes and commits, and the call returns
flush(p) ==
    /\ threads[p].at = "flush"
    /\ LET done == Flush(Store, threads[p].read, threads[p].body)
       IN  /\ Cardinality(DOMAIN done.store.contacts) <= MaxContacts
           /\ Write(done.store)
           /\ threads' = [threads EXCEPT ![p] =
                             [at |-> "done", op |-> threads[p].op,
                              args |-> threads[p].args, read |-> threads[p].read,
                              body |-> threads[p].body, result |-> done]]
    /\ UNCHANGED <<environ, SERVICE_URL, last, registry, scope, now>>

\* the store is filled before the concurrent calls begin
Filling == Fresh /\ \A p \in Callers : Idle(p)

NextConcurrent ==
    \/ Filling /\ AddContact
    \/ Filling /\ PlainNote
    \/ Filling /\ AddTask
    \/ \E p \in Callers : Idle(p) /\ BeginTagNote(p)
    \/ \E p \in Callers : Idle(p) /\ BeginTagTask(p)
    \/ \E p \in Callers : Idle(p) /\ BeginAddContact(p)
    \/ \E p \in Callers : flush(p)

SpecConcurrent == Init /\ [][NextConcurrent]_vars

----------------------------------------------------------------------------
(* The notes under a running clock.                                        *)

\* time passes between two calls
tick ==
    /\ now < MaxClock
    /\ now' = now + 1
    /\ UNCHANGED <<environ, SERVICE_URL, tables, last, registry, scope, threads>>

NextClock ==
    \/ Fresh /\ tick
    \/ Fresh /\ AddContact
    \/ Fresh /\ PlainNote
    \/ Fresh /\ TagNoteContacts

SpecClock == Init /\ [][NextClock]_vars

----------------------------------------------------------------------------
(* api.py: the peer of a process in remote mode.  The store is the store   *)
(* of the peer, SERVICE_URL is that of the calling process.                *)

PeerUrl == [kind |-> "str", value |-> "http://peer"]

\* the JSON body of a response
Json(data) == [kind |-> "json", data |-> data]

\* ContactResponse, OrganizationResponse: an item of a list of a note
ItemResponse(id) == [kind |-> "object", id |-> id]

\* NoteResponse with from_attributes: id, title, content, the two dates,
\* contacts and organizations
NoteResponse(note) ==
    [kind |-> "object", id |-> note.id,
     contacts |-> {ItemResponse(c) : c \in note.contacts},
     organizations |-> {ItemResponse(o) : o \in note.organizations}]

\* what a handler did: the store it left, and its response
Served(store, status_code, body) ==
    [store |-> store,
     response |-> [kind |-> "Response", status_code |-> status_code,
                   body |-> body]]

\* POST /notes: NoteService.add_note of the peer; 400 on an error
create_note(db, note) ==
    LET result == get_db_session(db,
                      add_note_body(db, note.title, note.contact_ids,
                                    note.organization_ids, note.task_ids))
    IN  IF result.error # None
        THEN Served(result.store, 400, Json(Detail("x")))
        ELSE Served(result.store, 201, Json(NoteResponse(result.value)))

\* GET /notes/{note_id}: NoteService.get_note of the peer; 404 on None
api_get_note(db, note_id) ==
    LET result == get_db_session(db, get_note_body(db, note_id))
    IN  IF result.value = None
        THEN Served(result.store, 404, Json(Detail("x")))
        ELSE Served(result.store, 200, Json(NoteResponse(result.value)))

\* the peer serves a request of another client: the store changes, no call
\* of this process is recorded
Serve(store) ==
    /\ Write(store)
    /\ UNCHANGED <<environ, SERVICE_URL, last, registry, scope, callers>>

\* POST /contacts
create_contact ==
    Serve(get_db_session(Store, add_contact_body(Store, <<"a">>, <<"b">>)).store)

\* POST /organizations
create_organization ==
    Serve(get_db_session(Store, add_organization_body(Store, <<"x">>)).store)

\* POST /tasks
create_task ==
    /\ Cardinality(DOMAIN tasks) < MaxTasks
    /\ Serve(get_db_session(Store, add_task_body(Store, <<"t">>, 5, {}, {})).store)

\* a call of this process that the peer serves, or that fails on the way
\* to it
PeerCall(op, args, store, answered, failed) ==
    \/ /\ last' \in {Recorded(op, "remote", args, answered)}
                        \cup (IF Fresh THEN {last} ELSE {})
       /\ Write(store)
       /\ UNCHANGED <<environ, SERVICE_URL, registry, scope, callers>>
    \/ RemoteCall(op, args, failed)

\* the request did not reach the peer
RequestError == [kind |-> "RequestError"]

\* NoteService.add_note in remote mode
RemoteAddNote ==
    \E a \in NoteCreateArgs :
        LET note == [title |-> <<"n">>, contact_ids |-> a.contact_ids,
                     organization_ids |-> a.organization_ids,
                     task_ids |-> a.task_ids]
            served == create_note(Store, note)
        IN  /\ is_remote_mode
            /\ Cardinality(DOMAIN served.store.notes) <= MaxNotes
            /\ PeerCall("add_note", note, served.store,
                        NoteHTTP_add_note(served.response),
                        NoteHTTP_add_note(RequestError))

\* NoteService.get_note in remote mode
RemoteGetNote ==
    \E id \in Ids :
        LET served == api_get_note(Store, id)
        IN  /\ is_remote_mode
            /\ PeerCall("get_note", [id |-> id], served.store,
                        NoteHTTP_get_note(served.response),
                        NoteHTTP_get_note(RequestError))

InitPeer == InitWith(PeerUrl)

NextPeer ==
    \/ Fresh /\ create_contact
    \/ Fresh /\ create_organization
    \/ Fresh /\ create_task
    \/ Fresh /\ RemoteAddNote
    \/ Fresh /\ RemoteGetNote

SpecPeer == InitPeer /\ [][NextPeer]_vars

----------------------------------------------------------------------------
(* The store under creation calls with tag lists.                          *)

NextCreation ==
    \/ Fresh /\ AddContact
    \/ Fresh /\ AddOrganization
    \/ Fresh /\ CreateTask
    \/ Fresh /\ AddNote

SpecCreation == Init /\ [][NextCreation]_vars

----------------------------------------------------------------------------
(* The notes under tagging calls, with other notes in the store.           *)

\* NoteService.add_note of one more note
OtherNote ==
    \E a \in NoteCreateArgs :
        LET args == [title |-> <<"m">>, contact_ids |-> a.contact_ids,
                     organization_ids |-> a.organization_ids,
                     task_ids |-> a.task_ids]
            outcome == get_db_session(Store,
                           add_note_body(Store, <<"m">>, a.contact_ids,
                                         a.organization_ids, a.task_ids))
        IN  /\ ~is_remote_mode
            /\ Cardinality(DOMAIN notes) >= MaxNotes
            /\ Cardinality(DOMAIN outcome.store.notes) <= MaxNotes + MaxOtherNotes
            /\ LocalCall("add_note", args, outcome)

NextNotes ==
    \/ Fresh /\ AddContact
    \/ Fresh /\ AddOrganization
    \/ Fresh /\ AddTask
    \/ Fresh /\ AddNote
    \/ Fresh /\ OtherNote
    \/ Fresh /\ TagNote

SpecNotes == Init /\ [][NextNotes]_vars

----------------------------------------------------------------------------
(* The last call, as the properties see it.                                *)

Kinds == {"contacts", "organizations", "tasks"}

TaskKinds == {"contacts", "organizations"}

IsLocal(op) == last.op = op /\ last.backend = "local"

Succeeded == ~last.raised /\ last.error = None

Failed == ~last.raised /\ last.value = None /\ last.error # None

\* the table of kind k in store s
TableOf(s, k) ==
    CASE k = "contacts" -> s.contacts
      [] k = "organizations" -> s.organizations
      [] k = "tasks" -> s.tasks

\* the k-set of note id in store s
NoteSet(s, id, k) ==
    CASE k = "contacts" -> Linked(s.note_contact_association, id)
      [] k = "organizations" -> Linked(s.note_organization_association, id)
      [] k = "tasks" -> Linked(s.note_task_association, id)

\* the k-set of task id in store s
TaskSet(s, id, k) ==
    CASE k = "contacts" -> Linked(s.task_contact_association, id)
      [] k = "organizations" -> Linked(s.task_organization_association, id)

\* the k-set of the target of the last tagging call in store s
TargetSet(s, k) ==
    IF last.op = "tag_note" THEN NoteSet(s, last.args.id, k)
    ELSE TaskSet(s, last.args.id, k)

AddList(a, k) ==
    CASE k = "contacts" -> a.add_contact_ids
      [] k = "organizations" -> a.add_org_ids
      [] k = "tasks" -> a.add_task_ids

RemoveList(a, k) ==
    CASE k = "contacts" -> a.remove_contact_ids
      [] k = "organizations" -> a.remove_org_ids
      [] k = "tasks" -> a.remove_task_ids

AddedList(changes, k) ==
    CASE k = "contacts" -> changes.added_contacts
      [] k = "organizations" -> changes.added_organizations
      [] k = "tasks" -> changes.added_tasks

RemovedList(changes, k) ==
    CASE k = "contacts" -> changes.removed_contacts
      [] k = "organizations" -> changes.removed_organizations
      [] k = "tasks" -> changes.removed_tasks

\* the display names of the rows ids of kind k
NamesOf(s, k, ids) ==
    CASE k = "contacts" -> ContactNames(s.contacts, ids)
      [] k = "organizations" -> OrganizationNames(s.organizations, ids)
      [] k = "tasks" -> TaskTitles(s.tasks, ids)

\* the entity name that an error about kind k carries
EntityOf(k) ==
    CASE k = "contacts" -> "Contact"
      [] k = "organizations" -> "Organization"
      [] k = "tasks" -> "Task"

\* the last call was a local tag_note on a note that existed
TaggedNote == IsLocal("tag_note") /\ last.args.id \in DOMAIN last.pre.notes

\* the last call was a tag_task on a task that existed
TaggedTask == IsLocal("tag_task") /\ last.args.id \in DOMAIN last.pre.tasks

\* the kinds that the target of the last tagging call supports
KindsOfLast == IF last.op = "tag_note" THEN Kinds ELSE TaskKinds

\* the IDs of the add-list of kind k that named no row when the call began
MissingOf(k) == AddList(last.args.tags, k) \ DOMAIN TableOf(last.pre, k)

\* no association set of the target was changed by the last call
TargetUnchanged ==
    \A k \in KindsOfLast : TargetSet(Store, k) = TargetSet(last.pre, k)

----------------------------------------------------------------------------
(* C1 - C10                                                                *)

\* C1: tag_note on an existing note with a nonexistent ID in any add-list
\* returns an error, and after its session the note's contact,
\* organization and task sets all equal their values before the call.
C1_NoPartialChange ==
    (TaggedNote /\ \E k \in Kinds : MissingOf(k) # {})
        => Failed /\ TargetUnchanged

\* C2: tag_note whose only add-list names an existing and a nonexistent ID
\* returns an error that lists exactly the nonexistent IDs of that list,
\* and no existing ID of the list is added to the note's set.
C2_MixedAddListFails ==
    \A k \in Kinds :
        (/\ TaggedNote
         /\ \A j \in Kinds \ {k} : AddList(last.args.tags, j) = {}
         /\ AddList(last.args.tags, k) \cap DOMAIN TableOf(last.pre, k) # {}
         /\ MissingOf(k) # {})
        => /\ Failed
           /\ last.error = ReferenceNotFound(EntityOf(k), MissingOf(k))
           /\ TargetSet(Store, k) \ TargetSet(last.pre, k) = {}

C2_Witness ==
    /\ TaggedNote
    /\ last.args.tags.add_contact_ids = {1, 2}
    /\ 1 \in DOMAIN last.pre.contacts
    /\ 2 \notin DOMAIN last.pre.contacts
    /\ last.error.kind = "ReferenceNotFound"

\* C3: for tag_note and tag_task and each kind K, an add-list whose IDs are
\* all already in the K-set adds nothing: the K-set changes by nothing but
\* the call's own remove-list for K (it is unchanged when there is none),
\* and the diff's "added" list for K is empty.
C3_AddPresentIsNoOp ==
    \A k \in KindsOfLast :
        (/\ TaggedNote \/ TaggedTask
         /\ AddList(last.args.tags, k) # {}
         /\ AddList(last.args.tags, k) \subseteq TargetSet(last.pre, k))
        => /\ TargetSet(Store, k) \subseteq TargetSet(last.pre, k)
           /\ TargetSet(last.pre, k) \ TargetSet(Store, k)
                  \subseteq RemoveList(last.args.tags, k)
           /\ Succeeded => AddedList(last.value, k) = EmptyBag

C3_Witness ==
    /\ TaggedNote
    /\ Succeeded
    /\ last.args.tags.add_contact_ids = {1}
    /\ 1 \in NoteSet(last.pre, last.args.id, "contacts")
    /\ last.args.tags.remove_contact_ids = {}
    /\ NoteSet(Store, last.args.id, "contacts") = {1}
    /\ last.value.added_contacts = EmptyBag

\* C4: for tag_note and each kind K, a remove-list none of whose IDs is in
\* the K-set that the remove step works on (the set before the call and the
\* call's own adds for K), whether or not the IDs name rows, removes
\* nothing: the K-set loses no member and the diff's "removed" list for K
\* is empty; a call that carries remove-lists only succeeds.
C4_RemoveAbsentIsNoOp ==
    TaggedNote =>
        /\ (\A k \in Kinds : AddList(last.args.tags, k) = {}) => Succeeded
        /\ \A k \in Kinds :
            (/\ RemoveList(last.args.tags, k) # {}
             /\ RemoveList(last.args.tags, k) \cap TargetSet(last.pre, k) = {}
             /\ RemoveList(last.args.tags, k) \cap AddList(last.args.tags, k) = {})
            => /\ TargetSet(last.pre, k) \subseteq TargetSet(Store, k)
               /\ AddList(last.args.tags, k) = {}
                      => TargetSet(Store, k) = TargetSet(last.pre, k)
               /\ Succeeded => RemovedList(last.value, k) = EmptyBag

C4_Witness ==
    /\ TaggedNote
    /\ Succeeded
    /\ last.args.tags.remove_contact_ids = {2}
    /\ last.args.tags.add_contact_ids = {}
    /\ NoteSet(last.pre, last.args.id, "contacts") = {1}
    /\ NoteSet(Store, last.args.id, "contacts") = {1}
    /\ last.value.removed_contacts = EmptyBag

\* the last call carried add-lists only
AddOnly ==
    /\ \A k \in KindsOfLast : RemoveList(last.args.tags, k) = {}
    /\ \E k \in KindsOfLast : AddList(last.args.tags, k) # {}

\* C5: when tag_note or tag_task is applied a second time in a row to the
\* same entity with the same add-only instruction, the association sets
\* after the second call are those after the first, and every "added"
\* list of the second call's diff is empty.
C5_AddIdempotent ==
    (/\ IsLocal("tag_note") \/ IsLocal("tag_task")
     /\ last.repeat
     /\ AddOnly)
    => /\ TargetUnchanged
       /\ Succeeded => \A k \in KindsOfLast : AddedList(last.value, k) = EmptyBag

C5_Witness ==
    /\ TaggedTask
    /\ last.repeat
    /\ AddOnly
    /\ Succeeded
    /\ last.args.tags.add_contact_ids = {1}
    /\ TaskSet(Store, last.args.id, "contacts") = {1}

\* C6: tag_task on an existing task with a nonexistent ID in
\* add_contact_ids or add_org_ids fails as a whole with a
\* reference-not-found error that names the missing IDs, and changes no
\* association of the task.
C6_TaskReferenceChecked ==
    \A k \in TaskKinds :
        (TaggedTask /\ MissingOf(k) # {})
        => /\ Failed
           /\ last.error.kind = "ReferenceNotFound"
           /\ TargetUnchanged

\* C7: the "removed" lists of a tag_task diff name exactly the rows that
\* were in the task's set before the removal step (the set before the call
\* and the rows added by the call) and are not in it afterwards.
C7_TaskRemovedExact ==
    \A k \in TaskKinds :
        (TaggedTask /\ Succeeded)
        => RemovedList(last.value, k) =
               NamesOf(last.pre, k,
                       (TargetSet(last.pre, k)
                        \cup (AddList(last.args.tags, k) \cap DOMAIN TableOf(last.pre, k)))
                       \ TargetSet(Store, k))

\* C8: for every successful tag_note and kind K, the "added" list names
\* exactly the rows of (K-set after the call minus K-set before it) and the
\* "removed" list exactly those of (K-set before minus K-set after), also
\* when an ID is in both the add-list and the remove-list.
C8_NoteDiffExact ==
    \A k \in Kinds :
        (TaggedNote /\ Succeeded)
        => /\ AddedList(last.value, k) =
                  NamesOf(last.pre, k, TargetSet(Store, k) \ TargetSet(last.pre, k))
           /\ RemovedList(last.value, k) =
                  NamesOf(last.pre, k, TargetSet(last.pre, k) \ TargetSet(Store, k))

\* no two rows of the table agree on every column of the key
UniqueContacts ==
    \A i, j \in DOMAIN contacts :
        (/\ contacts[i].first_name = contacts[j].first_name
         /\ contacts[i].last_name = contacts[j].last_name) => i = j

UniqueOrganizations ==
    \A i, j \in DOMAIN organizations :
        organizations[i].name = organizations[j].name => i = j

\* C9: after any sequence of add_contact, bulk_add_contacts and
\* add_organization calls no two contacts share (first_name, last_name) and
\* no two organizations share a name; a create call for a name that exists
\* returns (None, error), the error carries the ID of the existing row, and
\* no row is added.
C9_UniqueNames ==
    /\ UniqueContacts
    /\ UniqueOrganizations
    /\ (/\ IsLocal("add_contact")
        /\ ContactsNamed(last.pre.contacts, last.args.first_name,
                         last.args.last_name) # {})
       => /\ Failed
          /\ last.error.kind = "Duplicate"
          /\ last.error.id \in ContactsNamed(last.pre.contacts,
                                             last.args.first_name,
                                             last.args.last_name)
          /\ Store = last.pre
    /\ (/\ IsLocal("add_organization")
        /\ OrganizationsNamed(last.pre.organizations, last.args.name) # {})
       => /\ Failed
          /\ last.error.kind = "Duplicate"
          /\ last.error.id \in OrganizationsNamed(last.pre.organizations,
                                                  last.args.name)
          /\ Store = last.pre

C9_Witness ==
    /\ IsLocal("add_contact")
    /\ last.error.kind = "Duplicate"
    /\ Cardinality(DOMAIN contacts) = 2
    /\ last.error.id = 2

\* C10: add_task with an importance outside 0..10 returns a validation
\* error and persists no task row and no association; every persisted task
\* has an importance in 0..10.
C10_ImportanceValidated ==
    /\ (IsLocal("add_task") /\ last.args.importance \notin 0..10)
       => /\ Failed
          /\ last.error.kind = "Validation"
          /\ Store = last.pre
    /\ \A t \in DOMAIN tasks : tasks[t].importance \in 0..10

C10_Witness ==
    /\ IsLocal("add_task")
    /\ last.args.importance = 11
    /\ last.args.contact_ids = {1}
    /\ 1 \in DOMAIN contacts
    /\ last.error.kind = "Validation"
    /\ tasks = <<>>

----------------------------------------------------------------------------
(* The store under list and fetch calls.                                   *)

\* the filter arguments: absent, 0, an ID
FilterIds == {None} \cup {OptionalInt(i) : i \in {0} \cup Ids}

ListNotes == \E c \in FilterIds, o \in FilterIds : list_notes(c, o)

ListTasks ==
    \E show \in BOOLEAN, c \in FilterIds, o \in FilterIds : list_tasks(show, c, o)

NextList ==
    \/ Fresh /\ AddContact
    \/ Fresh /\ AddOrganization
    \/ Fresh /\ AddTask
    \/ Fresh /\ AddNote
    \/ Fresh /\ ListNotes
    \/ Fresh /\ ListTasks
    \/ Fresh /\ ListContacts
    \/ Fresh /\ GetNote
    \/ Fresh /\ GetTask
    \/ Fresh /\ GetContactWithNotes

SpecList == Init /\ [][NextList]_vars

----------------------------------------------------------------------------
(* The import of the models: class statements in any order.               *)

ClassNames == {"Contact", "ContactWithNotes"}

\* an AssertionError at import ends the process
Halted == classes # <<>> /\ classes[Len(classes)].raised # None

\* the import goes on
Importing == ~Halted /\ Len(classes) < MaxClasses

\* one class statement of a module that is being imported
class_statement(c) ==
    /\ LET done == Import([reg |-> Registries, classes |-> classes], <<c>>, 1)
       IN  /\ _sqlalchemy_models' = done.reg.sqlalchemy
           /\ _pydantic_models' = done.reg.pydantic
           /\ classes' = done.classes
    /\ UNCHANGED <<environ, SERVICE_URL, tables, last, scope, callers>>

\* class X(ValidatedBase)
DefineSQLAlchemy ==
    \E name \in ClassNames, abstract \in BOOLEAN :
        class_statement(ClassStatement(name, "ValidatedSQLAlchemyMeta", abstract))

\* class X(ValidatedPydanticModel)
DefinePydantic ==
    \E name \in ClassNames, abstract \in BOOLEAN :
        class_statement(ClassStatement(name, "ValidatedPydanticMeta", abstract))

\* class X(BaseModel)
DefineBaseModel ==
    \E name \in ClassNames :
        class_statement(ClassStatement(name, "ModelMetaclass", FALSE))

InitLoad ==
    /\ environ = None
    /\ SERVICE_URL = Unloaded
    /\ NoModels
    /\ NoSession
    /\ NoCaller
    /\ NewDatabase

NextLoad ==
    \/ Importing /\ DefineSQLAlchemy
    \/ Importing /\ DefinePydantic
    \/ Importing /\ DefineBaseModel

SpecLoad == InitLoad /\ [][NextLoad]_vars

----------------------------------------------------------------------------
(* C11 - C20                                                               *)

\* the operations of the four services
ServiceOps ==
    {"add_contact", "bulk_add_contacts", "list_contacts",
     "get_contact_with_notes", "add_organization", "add_task", "get_task",
     "tag_task", "add_note", "get_note", "tag_note"}

NoteServiceOps == {"add_note", "get_note", "tag_note"}

\* C11: in remote mode every operation of the four services is forwarded
\* to the peer and opens no session on the local store and leaves the
\* store as it was; in local mode no operation sends a network request.
C11_BackendExclusive ==
    last.op \in ServiceOps
    => IF is_remote_mode
       THEN /\ last.backend = "remote"
            /\ last.session = <<>>
            /\ Store = last.pre
       ELSE last.requests = 0

\* C12: once base_service is loaded, is_remote_mode() gives the same value
\* at every step, the value being whether SERVICE_URL was in the
\* environment at the load; a later change of the environment changes
\* neither it nor the backend that a NoteService call uses.
C12_BackendFixed ==
    /\ [][Loaded => (is_remote_mode' = is_remote_mode)]_vars
    /\ [][(~Loaded /\ Loaded') => (is_remote_mode' = (environ # None))]_vars
    /\ [](last.op \in NoteServiceOps
            => ((last.backend = "remote") = is_remote_mode))

C12_Witness ==
    /\ Loaded
    /\ SERVICE_URL = None
    /\ environ # None
    /\ last.op = "add_note"
    /\ last.backend = "local"
    /\ Cardinality(DOMAIN notes) = 1

\* the last call ended in a failure of the network: no response, or a
\* response with a status of 400 or more
NetworkFailure ==
    /\ last.response # None
    /\ \/ last.response.kind = "RequestError"
       \/ last.response.status_code >= 400

\* what a call that succeeds and finds nothing returns: the empty list
\* from a list operation, no entity and no error from the others
FoundNothing(op) ==
    LET r == IF op = "ContactHTTP.list_contacts"
             THEN list_contacts_body(EmptyStore)
             ELSE get_task_body(EmptyStore, 1)
    IN  [value |-> r.value, error |-> r.error]

\* C13: in remote mode, what an HTTP-backed operation returns after a
\* failure of the network differs from what a successful call that found
\* nothing returns.
C13_FailureSurfaced ==
    (last.backend = "remote" /\ NetworkFailure)
    => /\ ~last.raised
       /\ [value |-> last.value, error |-> last.error] # FoundNothing(last.op)

\* C14: in remote mode, fetching a contact with its notes returns an
\* explicit "unavailable" result: neither the "not found" value nor a
\* contact with a list of notes.
C14_ExplicitUnavailable ==
    (/\ Loaded
     /\ is_remote_mode
     /\ last.op \in {"get_contact_with_notes",
                      "ContactHTTP.get_contact_with_notes"})
    => /\ last.value # None
       /\ last.value.kind # "ContactWithNotes"

\* C15: no core service operation ends by raising an exception to its
\* caller; every failure comes back as an error value.
C15_NothingRaised ==
    last.op \in ServiceOps => ~last.raised

\* the wire types among the class statements: the Pydantic models that are
\* not abstract
WireType(c) == c.metaclass # "ValidatedSQLAlchemyMeta" /\ ~c.abstract

\* a persisted-entity type of that name was registered before statement k
RegisteredBefore(k) ==
    \E j \in 1..(k - 1) :
        /\ classes[j].metaclass = "ValidatedSQLAlchemyMeta"
        /\ ~classes[j].abstract
        /\ classes[j].name = classes[k].name

\* C16: the definition of a wire type named X succeeds only if a persisted
\* type named X was registered before it; otherwise it fails with an error
\* that names X.
C16_SchemaParity ==
    \A k \in 1..Len(classes) :
        WireType(classes[k])
        => IF RegisteredBefore(k)
           THEN classes[k].raised = None
           ELSE classes[k].raised = AssertionError(classes[k].name)

\* the calls on session k after SessionLocal()
CallsOn(k) == SubSeq(sessions[k], 2, Len(sessions[k]))

Count(seq, x) == Cardinality({i \in DOMAIN seq : seq[i] = x})

\* session k has been closed, by the last call on it
Closed(k) == sessions[k][Len(sessions[k])] = "close"

\* every session was made once, and is closed unless it is the session of
\* the running frame
ScopedToOneCall ==
    \A k \in DOMAIN sessions :
        /\ Count(sessions[k], "SessionLocal") = 1
        /\ Count(sessions[k], "close") <= 1
        /\ Count(sessions[k], "close") = 1 => Closed(k)
        /\ (Exited \/ k # frame.session) => Closed(k)

\* C17 as stated: a session is made, then exactly one of commit (the body
\* ended without an exception) or rollback (the body raised) is called,
\* then close; it is closed on every exit and no later call uses it.
C17_CommitOrRollback ==
    /\ ScopedToOneCall
    /\ (frame # None /\ frame.at = "exit")
       => CallsOn(frame.session) = IF frame.body.raised
                                   THEN <<"rollback", "close">>
                                   ELSE <<"commit", "close">>

\* C17, amended: a session is made; then rollback is called if the body
\* raised an Exception, commit if the body ended without an exception
\* (and rollback after it if commit itself raised), and neither if the body
\* was ended by an exception that is not an Exception; then close.  The
\* store changes only by a commit that succeeded, and then as
\* get_db_session(before, body) says.  The session is closed on every exit
\* and no later call uses it.
C17_SessionScoped ==
    /\ ScopedToOneCall
    /\ (frame # None /\ frame.at = "exit")
       => LET calls == CallsOn(frame.session)
              whole == get_db_session(frame.pre, frame.body)
          IN  IF frame.exception.kind = "KeyboardInterrupt"
              THEN /\ calls = <<"close">>
                   /\ Store = frame.pre
              ELSE IF frame.body.raised
              THEN /\ calls = <<"rollback", "close">>
                   /\ Store = frame.pre
                   /\ sessions[frame.session] = whole.session
              ELSE IF frame.exception = None
              THEN /\ calls = <<"commit", "close">>
                   /\ Store = whole.store
                   /\ sessions[frame.session] = whole.session
              ELSE /\ calls = <<"commit", "rollback", "close">>
                   /\ Store = frame.pre

\* a second session returned after a body that returned an error value
\* (the contact exists), and its commit succeeded
C17_Witness ==
    /\ Len(sessions) = 2
    /\ frame # None
    /\ frame.at = "exit"
    /\ ~frame.body.raised
    /\ frame.body.error # None
    /\ frame.exception = None

\* the task that the last completion call names, in store s
TaskOf(s) == s.tasks[last.args.id]

\* the last call was complete_task or uncomplete_task, towards flag `to`
\* from flag `from`: it succeeds iff the task exists with flag `from` and
\* then only sets the flag to `to`; otherwise it returns an error and
\* changes nothing
CompletionStep(op, from, to) ==
    IsLocal(op)
    => LET exists == last.args.id \in DOMAIN last.pre.tasks
       IN  /\ ~last.raised
           /\ Succeeded <=> (exists /\ TaskOf(last.pre).completed = from)
           /\ Succeeded
              => Store = [last.pre EXCEPT !.tasks[last.args.id].completed = to]
           /\ ~Succeeded => Failed /\ Store = last.pre
           /\ (exists /\ TaskOf(last.pre).completed = to)
              => last.error = Already(IF to = 1 THEN "completed" ELSE "incomplete",
                                      TaskOf(last.pre).title)

CompletedIsFlag == \A i \in DOMAIN tasks : tasks[i].completed \in {0, 1}

\* a step that uncompletes the task that the call before it completed
UncompleteAfterComplete ==
    /\ IsLocal("complete_task")
    /\ Succeeded
    /\ last'.op = "uncomplete_task"
    /\ last'.args = last.args
    /\ last'.pre = Store

\* C18: complete_task succeeds iff the task exists and is incomplete, and
\* sets completed to 1; uncomplete_task succeeds iff the task exists and is
\* completed, and sets completed to 0; a call on a task in the target state
\* returns an error and changes nothing; the flag is always 0 or 1; and
\* complete followed by uncomplete restores the flag.
C18_CompletionStateMachine ==
    /\ [](CompletedIsFlag
          /\ CompletionStep("complete_task", 0, 1)
          /\ CompletionStep("uncomplete_task", 1, 0))
    /\ [][UncompleteAfterComplete
          => /\ last'.error = None
             /\ tasks'[last.args.id].completed = TaskOf(last.pre).completed]_vars

\* a task was completed, and the next call uncompleted it
C18_Witness ==
    /\ IsLocal("uncomplete_task")
    /\ Succeeded
    /\ TaskOf(last.pre).completed = 1
    /\ TaskOf(Store).completed = 0

\* the last call was a tagging call on a target that did not exist
TargetAbsent ==
    \/ IsLocal("tag_note") /\ last.args.id \notin DOMAIN last.pre.notes
    \/ IsLocal("tag_task") /\ last.args.id \notin DOMAIN last.pre.tasks

\* C19: tag_note and tag_task on a target that does not exist return the
\* "not found" error of the target, which is not the reference-not-found
\* error, whatever the lists hold, and change nothing in the store.
C19_TargetCheckedFirst ==
    TargetAbsent
    => /\ Failed
       /\ last.error = NotFound(IF last.op = "tag_note" THEN "Note" ELSE "Task",
                                last.args.id)
       /\ last.error.kind # "ReferenceNotFound"
       /\ Store = last.pre

\* a tagging call on a missing target whose add-lists name a row that
\* exists and an ID that does not
C19_Witness ==
    /\ TargetAbsent
    /\ \E k \in KindsOfLast : MissingOf(k) # {}
    /\ \E k \in KindsOfLast :
           AddList(last.args.tags, k) \cap DOMAIN TableOf(last.pre, k) # {}
    /\ last.error.kind = "NotFound"

\* the add-list of kind k of the last call, a tag_note or an add_note
RequestedOf(k) ==
    IF last.op = "tag_note" THEN AddList(last.args.tags, k)
    ELSE CASE k = "contacts" -> last.args.contact_ids
           [] k = "organizations" -> last.args.organization_ids
           [] k = "tasks" -> last.args.task_ids

\* the IDs of kind k that the error of the last call names
NamedOf(k) == IF last.error.entity = EntityOf(k) THEN last.error.ids ELSE {}

\* C20: when tag_note or add_note fails on unresolved references, its
\* error names every ID of every add-list that named no row.
C20_AllUnresolvedNamed ==
    (/\ IsLocal("tag_note") \/ IsLocal("add_note")
     /\ Failed
     /\ last.error.kind = "ReferenceNotFound")
    => \A k \in Kinds :
           NamedOf(k) = RequestedOf(k) \ DOMAIN TableOf(last.pre, k)

----------------------------------------------------------------------------
(* C21 - C30                                                               *)

ListOps == {"list_notes", "list_tasks", "list_contacts"}

FetchOps == {"get_note", "get_task", "get_contact_with_notes"}

\* C21: a list operation returns a sequence and no error, also when a
\* filter ID names no row or nothing matches; a fetch of one entity returns
\* the entity or the absent marker, and no error.
C21_ListsAreTotal ==
    /\ last.op \in ListOps
       => ~last.raised /\ last.error = None /\ last.value.kind = "list"
    /\ last.op \in FetchOps
       => ~last.raised /\ last.error = None

\* caller p has returned from a call of op
Returned(p, op) == threads[p].at = "done" /\ threads[p].op = op

\* the pairs that the tagging call of caller p adds
PairsOf(p) ==
    {<<threads[p].args.id, c>> : c \in threads[p].args.tags.add_contact_ids}

\* the association table that the tagging call of caller p writes, in store s
TaggedTable(p, s) ==
    IF threads[p].op = "tag_note" THEN s.note_contact_association
    ELSE s.task_contact_association

\* the tagging call of caller p named a target and contacts that existed
\* when it read the store
Resolved(p) ==
    /\ threads[p].args.id \in DOMAIN (IF threads[p].op = "tag_note"
                                      THEN threads[p].read.notes
                                      ELSE threads[p].read.tasks)
    /\ threads[p].args.tags.add_contact_ids \subseteq DOMAIN threads[p].read.contacts

\* C22: under any interleaving of concurrent tag_note / tag_task calls on
\* one entity, a call that adds a pair completes without an error and the
\* pair is in the table once, also when the pair is present at the time
\* the change is written because a concurrent call wrote it after this
\* call had read the table.
C22_ConcurrentAddIsNoOp ==
    \A p \in Callers :
        ((Returned(p, "tag_note") \/ Returned(p, "tag_task")) /\ Resolved(p))
        => /\ ~threads[p].result.raised
           /\ threads[p].result.error = None
           /\ PairsOf(p) \subseteq TaggedTable(p, Store)

\* the callers that have returned from add_contact for the name of caller p
SameName(p) ==
    {q \in Callers : Returned(q, "add_contact") /\ threads[q].args = threads[p].args}

\* C27: under any interleaving of two concurrent add_contact calls for one
\* name, at most one contact row has that name after both have returned,
\* and at most one of the two calls returns success.
C27_ConcurrentAddContactUnique ==
    \A p \in Callers :
        Returned(p, "add_contact")
        => /\ Cardinality(ContactsNamed(contacts, threads[p].args.first_name,
                                        threads[p].args.last_name)) <= 1
           /\ Cardinality({q \in SameName(p) :
                              /\ ~threads[q].result.raised
                              /\ threads[q].result.error = None}) <= 1

\* the last call returned a diff that names a row
DiffNonEmpty ==
    /\ Succeeded
    /\ last.value.kind = "changes"
    /\ \E k \in Kinds : \/ AddedList(last.value, k) # EmptyBag
                        \/ RemovedList(last.value, k) # EmptyBag

\* C23: after a tag_note call whose diff is not empty, updated_at of the
\* note is not before the time of the call.
C23_UpdatedAtRefreshed ==
    (TaggedNote /\ DiffNonEmpty)
    => notes[last.args.id].updated_at >= last.time

\* the last call was made in remote mode and returned a note
RemoteNoteReturned ==
    /\ last.backend = "remote"
    /\ last.op \in {"add_note", "get_note"}
    /\ Succeeded
    /\ last.value # None

\* C24: a note returned by add_note or get_note in remote mode carries, for
\* each kind, the rows that the note is linked to in the store of the peer,
\* as the note of the local mode does.
C24_RemoteNoteNested ==
    RemoteNoteReturned
    => \A k \in Kinds :
           {x.id : x \in last.value[k]} = NoteSet(Store, last.value.id, k)

\* the last call was a creation with tag lists on the local store
Created == IsLocal("add_task") \/ IsLocal("add_note")

\* an ID of the lists of the last creation call named no row
UnresolvedAtCreation ==
    \/ last.args.contact_ids \ DOMAIN last.pre.contacts # {}
    \/ last.args.organization_ids \ DOMAIN last.pre.organizations # {}
    \/ /\ last.op = "add_note"
       /\ last.args.task_ids \ DOMAIN last.pre.tasks # {}

\* C25: add_task and add_note with an ID that names no row return an error
\* and leave the store as it was.
C25_CreationAllOrNothing ==
    (Created /\ UnresolvedAtCreation)
    => /\ Failed
       /\ Store = last.pre

\* the k-set of note n is in store s what it was before the last call
SameSet(n, k) == NoteSet(Store, n, k) = NoteSet(last.pre, n, k)

\* C26: after a successful tag_note, the k-set of the note is its k-set
\* before the call with the add-list, less the remove-list: an ID of both
\* lists is not in it; a kind with neither list has its set unchanged, and
\* so has every other note.
C26_TagNoteSetAlgebra ==
    (TaggedNote /\ Succeeded)
    => /\ \A k \in Kinds :
              NoteSet(Store, last.args.id, k)
              = (NoteSet(last.pre, last.args.id, k) \cup AddList(last.args.tags, k))
                \ RemoveList(last.args.tags, k)
       /\ \A k \in Kinds :
              (AddList(last.args.tags, k) = {} /\ RemoveList(last.args.tags, k) = {})
              => SameSet(last.args.id, k)
       /\ \A n \in DOMAIN last.pre.notes \ {last.args.id} :
              \A k \in Kinds : SameSet(n, k)
       /\ notes = last.pre.notes

\* a successful tag_note with one contact in both lists, on a note that was
\* linked to another row, with another note that is linked to the contact
C26_Witness ==
    /\ TaggedNote
    /\ Succeeded
    /\ last.args.tags.add_contact_ids = {1}
    /\ last.args.tags.remove_contact_ids = {1}
    /\ NoteSet(Store, last.args.id, "contacts") = {}
    /\ \E k \in Kinds : NoteSet(last.pre, last.args.id, k) # {}
    /\ \E n \in DOMAIN notes \ {last.args.id} : NoteSet(Store, n, "contacts") = {1}

\* C28: every name of the Pydantic registry is a name of the SQLAlchemy
\* registry, after a class statement that raised too.
C28_RegistryInvariant == _pydantic_models \subseteq _sqlalchemy_models

\* the last call returned what HTTPClient.patch returned
Patched == last.backend = "remote" /\ last.op = "tag_note" /\ ~last.raised

\* C29: what HTTPClient returns is (data, None) with data that is not
\* None, or (None, error) with an error that is not the empty string.
C29_DataOrError ==
    Patched
    => \/ last.value # None /\ last.error = None
       \/ last.value = None /\ bool(last.error)

\* HTTPClient._get_base_url raised in the last call
UrlRaised == last.raised /\ last.error = [kind |-> "RuntimeError"]

\* C30: in a loaded process, when is_remote_mode() holds no call ends with
\* the error of _get_base_url, and when it does not hold no call sends a
\* request.
C30_ModeAndPeerAgree ==
    Loaded
    => IF is_remote_mode THEN ~UrlRaised ELSE last.requests = 0

====
